---- MODULE Spec2Model ----
(***************************************************************************)
(* Figure numbering and equation references of fangia-tools.               *)
(*                                                                         *)
(* The model follows the locking snapshot of FigureNumberingFeature        *)
(* (src/unnamed/part_003, second class, lines 290-622): its four caches,   *)
(* the async process() with its lazy scan, onFileOpen, onLayoutChange and  *)
(* the file reads in flight.  JavaScript runs every handler to completion, *)
(* so a handler is one action; an await splits it in two actions.          *)
(***************************************************************************)
EXTENDS Integers, Sequences, FiniteSets, Bags, TLC

\* ------------------------------------------------------------------ bounds
MaxPending == 2      \* async continuations (reads, timers) in flight at once
MaxCalls   == 3      \* calls the host makes: fragments rendered, files opened
                     \* or changed, layout changes
MaxFaulty  == 1      \* the nodes of a fragment that may be malformed: the first ones

\* ------------------------------------------------------------ the documents
Docs == {"A", "B"}
Els  == {1, 2, 3}

\* ctx.sourcePath of a rendered fragment
docOf(e) == IF e = 3 THEN "B" ELSE "A"

\* file.basename of a document, as characters
basename(d) ==
    IF d = "A" THEN <<"S", "L", "D", "1", "_", "0", "0", "2">>
               ELSE <<"n", "o", "t", "e", "s">>

Letters == {"S", "L", "D", "n", "o", "t", "e", "s", "H", "W"}
Digits  == {"0", "1", "2", "3"}

\* ----------------------------------------------------------- getFilePrefix
\* the end of the maximal run of characters of class S that starts at i
RECURSIVE RunEnd(_, _, _)
RunEnd(s, i, S) ==
    IF i <= Len(s) /\ s[i] \in S THEN RunEnd(s, i + 1, S) ELSE i

\* a match of /[A-Z]+\d+_([A-Z]*\d+)/i that starts at i: <<from, to>> of group 1,
\* <<0, 0>> when there is none
MatchAt(s, i) ==
    LET a == RunEnd(s, i, Letters)
        b == RunEnd(s, a, Digits)
        c == RunEnd(s, b + 1, Letters)
        e == RunEnd(s, c, Digits)
    IN  IF a > i /\ b > a /\ b <= Len(s) /\ s[b] = "_" /\ e > c
        THEN <<b + 1, e - 1>> ELSE <<0, 0>>

RECURSIVE FirstMatch(_, _)
FirstMatch(s, i) ==
    IF i > Len(s) THEN <<0, 0>>
    ELSE IF MatchAt(s, i) # <<0, 0>> THEN MatchAt(s, i)
    ELSE FirstMatch(s, i + 1)

\* prefixMatch[1].replace(/(\D*)0*(\d+)/, '$1$2'): the zeros of the digit run
\* are dropped, but \d+ keeps at least its last digit
StripZeros(g) ==
    LET a == RunEnd(g, 1, Letters)
        z == RunEnd(g, a, {"0"})
        k == IF z > Len(g) THEN Len(g) ELSE z
    IN  SubSeq(g, 1, a - 1) \o SubSeq(g, k, Len(g))

getFilePrefix(fileName) ==
    LET m == FirstMatch(fileName, 1)
    IN  IF m # <<0, 0>>
        THEN LET prefix == StripZeros(SubSeq(fileName, m[1], m[2]))
             IN  IF prefix # <<>> THEN prefix ELSE <<"1">>
        ELSE <<"1">>

\* ------------------------------------------------------------ the vault
\* a file of the vault: whether getFileByPath finds it, whether its first
\* heading starts with a Hebrew letter, and the ids of its figure
\* declarations in document order
NoFile == [exists |-> FALSE, heb |-> FALSE, ids |-> <<>>]
File(h, s) == [exists |-> TRUE, heb |-> h, ids |-> s]

FileContents ==
    { File(FALSE, <<"x", "y">>), File(FALSE, <<"x">>), File(FALSE, <<>>), NoFile }

FIGURE_TEXT(isHebrew) == IF isHebrew THEN "Iyur" ELSE "Figure"

isHebrewContent(content) == content.heb

\* the label `${figureText} ${prefix}.${counter}`
Label(text, prefix, n) == [text |-> text, prefix |-> prefix, n |-> n]
NoLabel == Label("", <<>>, 0)

\* const prefix = this.getFilePrefix(file.basename), for each document
prefixOf == [d \in Docs |-> getFilePrefix(basename(d))]

\* (mutant) the counter is not incremented
RECURSIVE ScanLoop_CounterStuck(_, _, _, _, _)
ScanLoop_CounterStuck(figureText, prefix, matches, counter, figures) ==
    IF matches = <<>> THEN figures
    ELSE ScanLoop_CounterStuck(figureText, prefix, Tail(matches), counter,
             Append(figures, [number |-> Label(figureText, prefix, counter),
                              id     |-> Head(matches)]))

\* while ((match = figureRegex.exec(content)) !== null) { push; counter++ }:
\* matches are the ids of the declarations still to come
RECURSIVE ScanLoop(_, _, _, _, _)
ScanLoop(figureText, prefix, matches, counter, figures) ==
    IF matches = <<>> THEN figures
    ELSE ScanLoop(figureText, prefix, Tail(matches), counter + 1,
             Append(figures, [number |-> Label(figureText, prefix, counter),
                              id     |-> Head(matches)]))

\* the table scanForFigures builds from the content of document d
ScanContent(d, content) ==
    ScanLoop(FIGURE_TEXT(isHebrewContent(content)), prefixOf[d], content.ids, 1, <<>>)


\* ------------------------------------------------------ rendered fragments
\* The text of a caption paragraph is the list of the label prefixes it starts
\* with, outermost first; the words after them never change and are left out.
\*   gen    a label written by the matcher
\*   typed  a label the author typed as the matcher writes it ("Figure 3.1:")
\*   lower  a label the author typed in another case ("figure 3.1:")
Tok(kind, lab) == [kind |-> kind, lab |-> lab]
Plain       == <<>>
TypedLabel  == <<Tok("typed", NoLabel)>>
LowerLabel  == <<Tok("lower", NoLabel)>>

\* a blockquote: whether it holds a paragraph, and the paragraph's text
Quote(hasP, text) == [hasP |-> hasP, text |-> text]
\* a link a[href*="#^figure"]: the id its href encodes, its visible text
\* (<<>> is the text the author wrote) and the click listeners attached to it
Link(id) == [id |-> id, text |-> <<>>, handlers |-> 0]

InitDom ==
    [e \in Els |->
        CASE e = 1 -> [quotes |-> <<Quote(TRUE, Plain), Quote(TRUE, LowerLabel)>>,
                       links  |-> <<Link("y")>>]
          [] e = 2 -> [quotes |-> <<Quote(FALSE, Plain), Quote(TRUE, Plain)>>,
                       links  |-> <<Link("z")>>]
          [] e = 3 -> [quotes |-> <<Quote(TRUE, Plain), Quote(TRUE, TypedLabel)>>,
                       links  |-> <<>>]]

\* (mutant) the test for an existing label is left out
HasFigureNumber_Never(text) == FALSE

\* /^(Figure|<hebrew>)\s+[\w\d.-]+:/.test(originalText); a prefix returned by
\* getFilePrefix is made of letters and digits, so every written label passes
HasFigureNumber(text) ==
    /\ text # <<>>
    /\ text[1].kind \in {"gen", "typed"}

\* whether /^(Figure|<hebrew>)\s+[\d.-]+:\s*/i matches the label at the start
Strippable(tok) ==
    \/ tok.kind \in {"typed", "lower"}
    \/ tok.kind = "gen" /\ \A i \in 1..Len(tok.lab.prefix) : tok.lab.prefix[i] \in Digits

\* originalHTML.replace(/^(Figure|<hebrew>)\s+[\d.-]+:\s*/i, '').trim()
CleanHTML(text) ==
    IF text # <<>> /\ Strippable(text[1]) THEN Tail(text) ELSE text

\* ------------------------------------------------ getNextAvailableFigure
\* the index of the first record whose id is not in the set, 0 for null
RECURSIVE NextFrom(_, _, _)
NextFrom(figures, assignedSet, i) ==
    IF i > Len(figures) THEN 0
    ELSE IF figures[i].id \notin assignedSet THEN i
    ELSE NextFrom(figures, assignedSet, i + 1)

getNextAvailableFigure(figures, assignedSet) == NextFrom(figures, assignedSet, 1)

\* ------------------------------------------------- processBlockForFigures
\* What goes wrong in one pass over a fragment (a malformed node):
\*   none    nothing
\*   query   el.querySelectorAll throws
\*   read    reading the idx-th paragraph's text throws
\*   write   writing the idx-th paragraph's innerHTML throws
\*   link    updating the idx-th link throws
Fault(kind, idx) == [kind |-> kind, idx |-> idx]
NoFault == Fault("none", 0)
Faults  == {NoFault, Fault("query", 0)}
             \cup {Fault(k, i) : k \in {"read", "write", "link"}, i \in 1..MaxFaulty}

\* the body of blockquotes.forEach for the i-th blockquote: the paragraph's new
\* text and the new assignment set
OneBlockquote(q, i, figures, assignedSet, fault) ==
    LET skip == [q |-> q, set |-> assignedSet]
        next == getNextAvailableFigure(figures, assignedSet)
    IN  IF ~q.hasP THEN skip
        ELSE IF fault = Fault("read", i) THEN skip
        ELSE IF HasFigureNumber(q.text) THEN skip
        ELSE IF next = 0 THEN skip
        ELSE IF fault = Fault("write", i)
             THEN [q |-> q, set |-> assignedSet \cup {figures[next].id}]
        ELSE [q   |-> Quote(TRUE, <<Tok("gen", figures[next].number)>>
                                     \o CleanHTML(q.text)),
              set |-> assignedSet \cup {figures[next].id}]

RECURSIVE EachBlockquote(_, _, _, _, _)
EachBlockquote(quotes, i, figures, assignedSet, fault) ==
    IF i > Len(quotes) THEN [quotes |-> quotes, set |-> assignedSet]
    ELSE LET r == OneBlockquote(quotes[i], i, figures, assignedSet, fault)
         IN  EachBlockquote([quotes EXCEPT ![i] = r.q], i + 1, figures, r.set, fault)

\* an entry of the map assignedFigures: absent, or a set of ids
NoSet      == [present |-> FALSE, v |-> {}]
SomeSet(S) == [present |-> TRUE, v |-> S]

processBlockForFigures(quotes, figures, assigned, fault) ==
    IF fault.kind = "query" \/ Len(quotes) = 0
    THEN [quotes |-> quotes, assigned |-> assigned]
    ELSE LET r == EachBlockquote(quotes, 1, figures, assigned.v, fault)
         IN  [quotes |-> r.quotes, assigned |-> SomeSet(r.set)]

\* ------------------------------------------------ processFigureReferences
\* (mutant) the ids are not compared: the first record is taken
FindFrom_Any(figures, id, i) == IF i > Len(figures) THEN 0 ELSE i

\* figures.find(f => f.id === figureId): the index of the first, 0 for none
RECURSIVE FindFrom(_, _, _)
FindFrom(figures, id, i) ==
    IF i > Len(figures) THEN 0
    ELSE IF figures[i].id = id THEN i
    ELSE FindFrom(figures, id, i + 1)

OneLink(l, i, figures, fault) ==
    LET f == FindFrom(figures, l.id, 1)
    IN  IF fault = Fault("link", i) \/ f = 0 THEN l
        ELSE [l EXCEPT !.text = <<figures[f].number>>, !.handlers = @ + 1]

processFigureReferences(links, figures, fault) ==
    IF fault.kind = "query" THEN links
    ELSE [i \in 1..Len(links) |-> OneLink(links[i], i, figures, fault)]

\* ------------------------------------------------------------- the state
VARIABLES
    vault,              \* the files of the host: [Docs -> file]
    dom,                \* the rendered fragments: [Els -> quotes and links]
    figuresByFile,      \* Map<string, FigureInfo[]>
    assignedFigures,    \* Map<string, Set<string>>
    processedElements,  \* WeakSet<HTMLElement>
    processingLock,     \* Map<string, boolean>; TRUE iff get(path) is truthy
    pending,            \* the invocations suspended at an await or a timer
                        \* (a bag: the host settles them in any order)
    labelled,           \* per document, the captions labelled since its caches
                        \* were last cleared (history, not read by the code)
    ev,                 \* what the last step was and how it ended
    nCalls              \* the host's calls so far

core == <<dom, figuresByFile, assignedFigures, processedElements, processingLock,
          labelled>>
vars == <<vault, dom, figuresByFile, assignedFigures, processedElements,
          processingLock, pending, labelled, ev, nCalls>>

\* an entry of the map figuresByFile: absent, or a table
NoTable      == [present |-> FALSE, v |-> <<>>]
SomeTable(t) == [present |-> TRUE, v |-> t]

\* a suspended invocation: process() inside its lazy scan, the scan started by
\* onFileOpen, or the timer and scan of onLayoutChange
\*   timer    waiting for setTimeout(500)
\*   reading  vault.read(file) is in flight
\*   read     the host has read the file (ok, with the text in file) or has
\*            failed to; the promise of vault.read is about to settle
Task(kind, e, d, phase) ==
    [kind |-> kind, el |-> e, doc |-> d, phase |-> phase, ok |-> TRUE, file |-> NoFile]

Event(op, by, e, d, res) == [op |-> op, by |-> by, el |-> e, doc |-> d, res |-> res]

\* the suspended invocations with one more, one fewer, one replaced
Suspend(t)    == pending (+) SetToBag({t})
Remove(t)     == pending (-) SetToBag({t})
Replace(t, u) == Remove(t) (+) SetToBag({u})

Init ==
    /\ vault = [d \in Docs |-> IF d = "A" THEN File(FALSE, <<"x", "y">>)
                                          ELSE File(FALSE, <<"x">>)]
    /\ dom = InitDom
    /\ figuresByFile = [d \in Docs |-> NoTable]
    /\ assignedFigures = [d \in Docs |-> NoSet]
    /\ processedElements = {}
    /\ processingLock = [d \in Docs |-> FALSE]
    /\ pending = EmptyBag
    /\ labelled = [d \in Docs |-> 0]
    /\ ev = Event("init", "", 0, "", "")
    /\ nCalls = 0

\* one more call of the host
Called == nCalls < MaxCalls /\ nCalls' = nCalls + 1

\* ---------------------------------------------------------------- process
\* the paragraphs whose innerHTML a pass over the blockquotes has written
NewlyLabelled(before, after) ==
    Cardinality({i \in DOMAIN before : after[i] # before[i]})

\* the two passes over the fragment and the marker
Annotate(e, figures, fault) ==
    LET d == docOf(e)
        b == processBlockForFigures(dom[e].quotes, figures, assignedFigures[d], fault)
        l == processFigureReferences(dom[e].links, figures, fault)
    IN  /\ dom' = [dom EXCEPT ![e] = [quotes |-> b.quotes, links |-> l]]
        /\ assignedFigures' = [assignedFigures EXCEPT ![d] = b.assigned]
        /\ processedElements' = processedElements \cup {e}
        /\ labelled' = [labelled EXCEPT ![d] = @ + NewlyLabelled(dom[e].quotes, b.quotes)]

\* (mutant) the lock is not released on the way out
ReleaseLock_Missing(d) == UNCHANGED processingLock

\* finally { this.processingLock.delete(ctx.sourcePath) }
ReleaseLock(d) == processingLock' = [processingLock EXCEPT ![d] = FALSE]

\* (mutant) the marker is not consulted: both passes run again
ProcessMarked_Again(e) ==
    /\ Called
    /\ \E fault \in Faults : Annotate(e, figuresByFile[docOf(e)].v, fault)
    /\ ev' = Event("process", "process", e, docOf(e), "marked")
    /\ UNCHANGED <<vault, figuresByFile, processingLock, pending>>

\* the call arrives for a fragment that carries the marker
ProcessMarked(e) ==
    /\ Called
    /\ ev' = Event("process", "process", e, docOf(e), "marked")
    /\ UNCHANGED <<vault, core, pending>>

\* (mutant) the lock is tested inside the try block, so the finally block
\* deletes the lock of the invocation that holds it
ProcessLocked_InTry(e) ==
    /\ Called
    /\ ReleaseLock(docOf(e))
    /\ ev' = Event("process", "process", e, docOf(e), "locked")
    /\ UNCHANGED <<vault, dom, figuresByFile, assignedFigures, processedElements,
                   pending, labelled>>

\* (mutant) the dropped call leaves the marker on the fragment
ProcessLocked_Marks(e) ==
    /\ Called
    /\ processedElements' = processedElements \cup {e}
    /\ ev' = Event("process", "process", e, docOf(e), "locked")
    /\ UNCHANGED <<vault, dom, figuresByFile, assignedFigures, processingLock,
                   pending, labelled>>

\* the call arrives while the document's lock is held
ProcessLocked(e) ==
    /\ Called
    /\ ev' = Event("process", "process", e, docOf(e), "locked")
    /\ UNCHANGED <<vault, core, pending>>

\* the table is cached: the whole call runs without suspending
ProcessCached(e) ==
    /\ Called
    /\ \E fault \in Faults : Annotate(e, figuresByFile[docOf(e)].v, fault)
    /\ ReleaseLock(docOf(e))
    /\ ev' = Event("process", "process", e, docOf(e), "annotated")
    /\ UNCHANGED <<vault, figuresByFile, pending>>

\* no table, or an empty one: the lock is taken and the lazy scan starts
ProcessScan(e) ==
    /\ Called
    /\ BagCardinality(pending) < MaxPending
    /\ processingLock' = [processingLock EXCEPT ![docOf(e)] = TRUE]
    /\ pending' = Suspend(Task("process", e, docOf(e), "reading"))
    /\ ev' = Event("process", "process", e, docOf(e), "suspended")
    /\ UNCHANGED <<vault, dom, figuresByFile, assignedFigures, processedElements,
                   labelled>>

\* no table and getFileByPath finds no file: early return through finally
ProcessNoFile(e) ==
    /\ Called
    /\ ReleaseLock(docOf(e))
    /\ ev' = Event("process", "process", e, docOf(e), "empty")
    /\ UNCHANGED <<vault, dom, figuresByFile, assignedFigures, processedElements,
                   pending, labelled>>

process(e) ==
    LET d == docOf(e)
    IN  IF e \in processedElements THEN ProcessMarked(e)
        ELSE IF processingLock[d] THEN ProcessLocked(e)
        ELSE IF figuresByFile[d].present /\ Len(figuresByFile[d].v) # 0
             THEN ProcessCached(e)
        ELSE IF vault[d].exists THEN ProcessScan(e)
        ELSE ProcessNoFile(e)

\* ----------------------------------------------------------- scanForFigures
\* the host reads the file for a pending vault.read: the text as it is now, or
\* a failure; the promise is settled later
HostReads(t) ==
    /\ BagIn(t, pending)
    /\ t.phase = "reading"
    /\ \E ok \in (IF vault[t.doc].exists THEN {TRUE, FALSE} ELSE {FALSE}) :
          pending' = Replace(t, [t EXCEPT !.phase = "read", !.ok = ok,
                                          !.file = IF ok THEN vault[t.doc] ELSE NoFile])
    /\ ev' = Event("read", t.kind, t.el, t.doc, "done")
    /\ UNCHANGED <<vault, core, nCalls>>

\* (mutant) no catch block: a failed read stores nothing and rejects
scanForFigures_NoCatch(t) ==
    IF t.ok
    THEN [set |-> TRUE, figures |-> ScanContent(t.doc, t.file), threw |-> FALSE]
    ELSE [set |-> FALSE, figures |-> <<>>, threw |-> TRUE]

\* what scanForFigures does once its read has settled: the table it stores, if
\* any, and whether the rejection reaches its caller
scanForFigures(t) ==
    IF t.ok
    THEN [set |-> TRUE, figures |-> ScanContent(t.doc, t.file), threw |-> FALSE]
    ELSE [set |-> TRUE, figures |-> <<>>, threw |-> FALSE]

\* (mutant) the records are appended to the table already stored
AfterScan_Append(t) ==
    [figuresByFile EXCEPT ![t.doc] = SomeTable(@.v \o scanForFigures(t).figures)]

\* this.figuresByFile after the scan of task t
AfterScan(t) ==
    LET r == scanForFigures(t)
    IN  IF r.set THEN [figuresByFile EXCEPT ![t.doc] = SomeTable(r.figures)]
        ELSE figuresByFile

\* the read of a scan started by onFileOpen or onLayoutChange settles
ScanSettles(t) ==
    /\ BagIn(t, pending)
    /\ t.phase = "read"
    /\ t.kind # "process"
    /\ figuresByFile' = AfterScan(t)
    /\ pending' = Remove(t)
    /\ ev' = Event("scan", t.kind, 0, t.doc,
                   IF scanForFigures(t).threw THEN "threw"
                   ELSE IF t.ok THEN "stored" ELSE "recovered")
    /\ UNCHANGED <<vault, dom, assignedFigures, processedElements, processingLock,
                   labelled, nCalls>>

\* the rest of process() after await this.scanForFigures(file), given the
\* document's entry of figuresByFile
ProcessRest(t, figures) ==
    IF scanForFigures(t).threw
    THEN /\ UNCHANGED <<dom, assignedFigures, processedElements, labelled>>
         /\ ev' = Event("resume", "process", t.el, t.doc, "threw")
    ELSE IF figures.present /\ Len(figures.v) # 0
    THEN /\ \E fault \in Faults : Annotate(t.el, figures.v, fault)
         /\ ev' = Event("resume", "process", t.el, t.doc, "annotated")
    ELSE /\ UNCHANGED <<dom, assignedFigures, processedElements, labelled>>
         /\ ev' = Event("resume", "process", t.el, t.doc,
                        IF t.ok THEN "empty" ELSE "recovered")

\* the read of the lazy scan settles: scanForFigures stores its table and
\* process() resumes in the same turn of the event loop
ProcessResumes(t) ==
    /\ BagIn(t, pending)
    /\ t.phase = "read"
    /\ t.kind = "process"
    /\ figuresByFile' = AfterScan(t)
    /\ ProcessRest(t, figuresByFile'[t.doc])
    /\ ReleaseLock(t.doc)
    /\ pending' = Remove(t)
    /\ UNCHANGED <<vault, nCalls>>

\* ------------------------------------------------------ the host's events
\* (mutant) the markers survive the clearing
clearCacheForFile_KeepMarkers(filePath) ==
    /\ figuresByFile' = [figuresByFile EXCEPT ![filePath] = NoTable]
    /\ assignedFigures' = [assignedFigures EXCEPT ![filePath] = NoSet]
    /\ processingLock' = [processingLock EXCEPT ![filePath] = FALSE]
    /\ labelled' = [labelled EXCEPT ![filePath] = 0]
    /\ UNCHANGED processedElements

clearCacheForFile(filePath) ==
    /\ figuresByFile' = [figuresByFile EXCEPT ![filePath] = NoTable]
    /\ assignedFigures' = [assignedFigures EXCEPT ![filePath] = NoSet]
    /\ processingLock' = [processingLock EXCEPT ![filePath] = FALSE]
    /\ processedElements' = {}
    /\ labelled' = [labelled EXCEPT ![filePath] = 0]

onFileOpen(filePath) ==
    /\ Called
    /\ clearCacheForFile(filePath)
    /\ IF vault[filePath].exists
       THEN /\ BagCardinality(pending) < MaxPending
            /\ pending' = Suspend(Task("open", 0, filePath, "reading"))
            /\ ev' = Event("open", "open", 0, filePath, "scanning")
       ELSE /\ UNCHANGED pending
            /\ ev' = Event("open", "open", 0, filePath, "nofile")
    /\ UNCHANGED <<vault, dom>>

\* activeFile is the document the workspace shows
onLayoutChange(activeFile) ==
    /\ Called
    /\ vault[activeFile].exists
    /\ IF ~figuresByFile[activeFile].present
       THEN /\ BagCardinality(pending) < MaxPending
            /\ pending' = Suspend(Task("layout", 0, activeFile, "timer"))
            /\ ev' = Event("layout", "layout", 0, activeFile, "timer")
       ELSE /\ UNCHANGED pending
            /\ ev' = Event("layout", "layout", 0, activeFile, "cached")
    /\ UNCHANGED <<vault, core>>

\* setTimeout(() => this.scanForFigures(activeFile), 500) fires
TimerFires(t) ==
    /\ BagIn(t, pending)
    /\ t.phase = "timer"
    /\ pending' = Replace(t, [t EXCEPT !.phase = "reading"])
    /\ ev' = Event("timer", "layout", 0, t.doc, "reading")
    /\ UNCHANGED <<vault, core, nCalls>>

\* the host changes, creates or deletes a file
FileChanges(d, f) ==
    /\ Called
    /\ f # vault[d]
    /\ vault' = [vault EXCEPT ![d] = f]
    /\ ev' = Event("modify", "host", 0, d, "")
    /\ UNCHANGED <<core, pending>>

Next ==
    \/ \E e \in Els : process(e)
    \/ \E t \in BagToSet(pending) : HostReads(t)
    \/ \E t \in BagToSet(pending) : ScanSettles(t)
    \/ \E t \in BagToSet(pending) : ProcessResumes(t)
    \/ \E t \in BagToSet(pending) : TimerFires(t)
    \/ \E d \in Docs : onFileOpen(d)
    \/ \E d \in Docs : onLayoutChange(d)
    \/ \E d \in Docs, f \in FileContents : FileChanges(d, f)

Spec == Init /\ [][Next]_vars

\* the event loop does not stop while a read or a timer is outstanding: a
\* suspended invocation goes on
Settles ==
    \E t \in BagToSet(pending) :
        HostReads(t) \/ ScanSettles(t) \/ ProcessResumes(t) \/ TimerFires(t)

Fairness == WF_vars(Settles)

FairSpec == Spec /\ Fairness

\* ------------------------------------------------------------------ claims
\* the process() invocations of document d that are inside their
\* scan-and-match cycle: between taking the lock and the finally block
InCycle(d) ==
    {t \in BagToSet(pending) : t.kind = "process" /\ t.doc = d}
\* how many they are
NumInCycle(d) == BagCardinality([t \in InCycle(d) |-> CopiesIn(t, pending)])

\* the labels written by the matcher that the captions of fragment e carry
Captions(e) == {i \in DOMAIN dom[e].quotes : dom[e].quotes[i].hasP}
WrittenLabels(e, i) ==
    {dom[e].quotes[i].text[k].lab : k \in
        {j \in DOMAIN dom[e].quotes[i].text : dom[e].quotes[i].text[j].kind = "gen"}}
TableLabels(d) ==
    {figuresByFile[d].v[k].number : k \in DOMAIN figuresByFile[d].v}
MarkedOf(S, d) == {e \in S : docOf(e) = d}

\* C1: for every document at most one process() invocation is inside the
\* scan-and-match cycle at any moment.
C1_OneCyclePerDocument ==
    \A d \in Docs : NumInCycle(d) <= 1

\* C2: an invocation that took the lock has released it when it returns, on
\* every exit path; and a lock is held only while an invocation of the document
\* is suspended in its lazy scan, waiting for its read (HostReads) or for the
\* read to settle (ProcessResumes, which ends in the finally block): no
\* document stays locked with nothing left to unlock it.
C2_Exits == {"annotated", "empty", "recovered", "threw"}
C2_LockReleased ==
    /\ (ev.op \in {"process", "resume"} /\ ev.res \in C2_Exits)
          => ~processingLock[ev.doc]
    /\ \A d \in Docs : processingLock[d] =>
          \E t \in InCycle(d) : t.phase \in {"reading", "read"}
\* the same under FairSpec: a held lock is released
C2_EventuallyReleased ==
    \A d \in Docs : processingLock[d] ~> ~processingLock[d]
C2_Witness ==
    /\ ev.op = "resume" /\ ev.res \in {"empty", "recovered"}
    /\ ~processingLock[ev.doc]

\* C3: a process() call that arrives while its document's lock is held
\* returns without raising and changes nothing: no scan is started, nothing is
\* queued, and fragment, table, assignment set, lock and markers are as before.
C3_LockedCallDropped ==
    [][\A e \in Els :
        (/\ ev'.op = "process" /\ ev'.el = e /\ nCalls' = nCalls + 1
         /\ e \notin processedElements /\ processingLock[docOf(e)])
        => (ev'.res = "locked" /\ UNCHANGED <<vault, core, pending>>)]_vars
C3_Witness ==
    /\ ev.op = "process" /\ ev.res = "locked"
    /\ processingLock[ev.doc] /\ InCycle(ev.doc) # {}

\* C4: the table and the assignment set of a document change only in steps
\* taken while the document's lock is held (or by the process() call that
\* takes the lock for the step itself).
C4_MutationOnlyUnderLock ==
    [][\A d \in Docs :
        (figuresByFile'[d] # figuresByFile[d] \/ assignedFigures'[d] # assignedFigures[d])
        => (processingLock[d] \/ (ev'.op = "process" /\ ev'.doc = d))]_vars

\* C5: a step on one document leaves the table, the assignment set, the lock
\* and the markers of every other document as they were, and a call is dropped
\* as locked only when the lock of its own document is held.
C5_DocumentsIndependent ==
    [][/\ \A d \in Docs : (ev'.doc \in Docs \ {d} /\ ev' # ev) =>
            /\ figuresByFile'[d] = figuresByFile[d]
            /\ assignedFigures'[d] = assignedFigures[d]
            /\ processingLock'[d] = processingLock[d]
            /\ MarkedOf(processedElements', d) = MarkedOf(processedElements, d)
       /\ (ev'.res = "locked" /\ nCalls' = nCalls + 1) => processingLock[ev'.doc]]_vars

C7_NoStaleAnnotation ==
    \A e \in Els :
       /\ \A i \in Captions(e) : WrittenLabels(e, i) \subseteq TableLabels(docOf(e))
       /\ \A i \in DOMAIN dom[e].links :
             \A k \in DOMAIN dom[e].links[i].text :
                dom[e].links[i].text[k] \in TableLabels(docOf(e))

\* the fragment e after both passes of process() over it, for some fault
BothPasses(e, figures, assigned, d1) ==
    \E fault \in Faults :
        LET b == processBlockForFigures(dom[e].quotes, figures, assigned, fault)
        IN  d1 = [quotes |-> b.quotes,
                  links  |-> processFigureReferences(dom[e].links, figures, fault)]

\* C8: a process() call on a fragment that carries the marker changes neither
\* the fragment nor the table nor the assignment set; and a fragment gets the
\* marker only in the step that ran caption matching and reference linking
\* over it, against a table that is not empty.
C8_MarkedIsSkipped ==
    [][\A e \in Els :
        /\ (/\ ev'.op = "process" /\ ev'.el = e /\ nCalls' = nCalls + 1
            /\ e \in processedElements)
           => (ev'.res = "marked" /\ UNCHANGED <<dom, figuresByFile, assignedFigures>>)
        /\ (e \notin processedElements /\ e \in processedElements')
           => /\ ev'.el = e /\ ev'.res = "annotated"
              /\ figuresByFile'[docOf(e)].v # <<>>
              /\ BothPasses(e, figuresByFile'[docOf(e)].v,
                            assignedFigures[docOf(e)], dom'[e])]_vars
C8_Witness ==
    /\ ev.op = "process" /\ ev.res = "marked"
    /\ ev.el \in processedElements
    /\ \E i \in Captions(ev.el) : WrittenLabels(ev.el, i) # {}

\* C9: right after onFileOpen the document has no table, no assignment set,
\* no lock and no marked fragment, and its rescan has only just asked for the
\* file; so the next process() call on a fragment of it is not skipped.
C9_Cleared ==
    (ev.op = "open") =>
        /\ figuresByFile[ev.doc] = NoTable
        /\ assignedFigures[ev.doc] = NoSet
        /\ ~processingLock[ev.doc]
        /\ MarkedOf(processedElements, ev.doc) = {}
        /\ ev.res = "scanning" =>
              BagIn(Task("open", 0, ev.doc, "reading"), pending)
C9_OpenClearsCaches ==
    /\ []C9_Cleared
    /\ [][(/\ ev.op = "open" /\ ev'.op = "process" /\ nCalls' = nCalls + 1
           /\ ev'.doc = ev.doc)
             => ev'.res \in {"suspended", "empty"}]_vars
C9_Witness ==
    /\ ev.op = "open" /\ ev.res = "scanning"
    /\ \E e \in Els : docOf(e) = ev.doc /\ \E i \in Captions(e) : WrittenLabels(e, i) # {}

\* C10: when the read of a scan fails the document's table is registered and
\* empty, and no step ends with the failure reaching the caller.
C10_FailedScanRegistersEmpty ==
    /\ (ev.op \in {"scan", "resume"} /\ ev.res \in {"recovered", "threw"})
          => figuresByFile[ev.doc] = SomeTable(<<>>)
    /\ ev.res # "threw"
C10_Witness ==
    /\ ev.op \in {"scan", "resume"} /\ ev.res = "recovered"
    /\ figuresByFile[ev.doc] = SomeTable(<<>>)

\* C11: once a failed scan has registered the empty table of a document, a
\* process() call or a layout change for that document starts no read of it
\* (nothing is suspended, no timer is set).
C11_FailedScanNotRetried ==
    [][\A d \in Docs :
        (/\ ev.op \in {"scan", "resume"} /\ ev.res = "recovered" /\ ev.doc = d
         /\ figuresByFile[d] = SomeTable(<<>>)
         /\ ev'.op \in {"process", "layout"} /\ ev'.doc = d
         /\ nCalls' = nCalls + 1)
        => pending' = pending]_vars

\* C12: a scan that installs a table for a document finds the document's
\* assignment set empty.
C12_RescanClearsAssigned ==
    [][\A d \in Docs :
        (ev'.op \in {"scan", "resume"} /\ ev'.doc = d /\ figuresByFile'[d].present)
        => assignedFigures[d].v = {}]_vars

\* C13: the ids of a document's assignment set are the ids of the first k
\* records of the document's current table, for some k.
C13_AssignedIsPrefix ==
    \A d \in Docs :
        \E k \in 0..Len(figuresByFile[d].v) :
            assignedFigures[d].v = {figuresByFile[d].v[i].id : i \in 1..k}

\* ------------------------------------------------- the passes on their own
\* The scanner, the caption matcher and the reference linker applied to
\* arbitrary small inputs: a file of document A with any identifiers (empty,
\* repeated, distinct), a fragment with any captions and links.
MaxRecords  == 2     \* figure declarations of a file
MaxQuotes   == 2     \* blockquotes of a fragment
MaxHandlers == 3     \* click listeners on one link (each linker pass adds one)

UnitIds == {"", "x", "y"}

RECURSIVE SeqsUpTo(_, _)
SeqsUpTo(S, n) ==
    IF n = 0 THEN {<<>>}
    ELSE LET shorter == SeqsUpTo(S, n - 1)
         IN  shorter \cup {Append(q, x) : q \in shorter, x \in S}

UnitFiles == {File(h, ids) : h \in BOOLEAN, ids \in SeqsUpTo(UnitIds, MaxRecords)}
                \cup {NoFile}

UnitQuotes ==
    {Quote(TRUE, Plain), Quote(TRUE, TypedLabel), Quote(TRUE, LowerLabel),
     Quote(FALSE, Plain)}

UnitFragments ==
    {[quotes |-> q, links |-> l] :
        q \in SeqsUpTo(UnitQuotes, MaxQuotes),
        l \in {<<>>} \cup {<<Link(id)>> : id \in UnitIds}}

UnitInit ==
    /\ \E f \in UnitFiles : vault = [d \in Docs |-> IF d = "A" THEN f ELSE NoFile]
    /\ \E frag \in UnitFragments : dom = [InitDom EXCEPT ![1] = frag]
    /\ figuresByFile = [d \in Docs |-> NoTable]
    /\ assignedFigures = [d \in Docs |-> NoSet]
    /\ processedElements = {}
    /\ processingLock = [d \in Docs |-> FALSE]
    /\ pending = EmptyBag
    /\ labelled = [d \in Docs |-> 0]
    /\ ev = Event("init", "", 0, "", "")
    /\ nCalls = 0

\* scanForFigures(file) from the read to the stored table
UnitScan ==
    LET t == [Task("open", 0, "A", "read") EXCEPT !.ok = vault["A"].exists,
                                                   !.file = vault["A"]]
    IN  /\ figuresByFile' = AfterScan(t)
        /\ ev' = Event("scan", "unit", 0, "A", IF t.ok THEN "stored" ELSE "recovered")
        /\ UNCHANGED <<vault, dom, assignedFigures, processedElements,
                       processingLock, pending, labelled, nCalls>>

\* processBlockForFigures(el, figures, ctx) on fragment 1
UnitMatch ==
    LET b == processBlockForFigures(dom[1].quotes, figuresByFile["A"].v,
                                    assignedFigures["A"], NoFault)
    IN  /\ figuresByFile["A"].present
        /\ dom' = [dom EXCEPT ![1].quotes = b.quotes]
        /\ assignedFigures' = [assignedFigures EXCEPT !["A"] = b.assigned]
        /\ labelled' = [labelled EXCEPT !["A"] = @ + NewlyLabelled(dom[1].quotes, b.quotes)]
        /\ ev' = Event("match", "unit", 1, "A",
                       IF b.quotes = dom[1].quotes /\ b.assigned = assignedFigures["A"]
                       THEN "same" ELSE "changed")
        /\ UNCHANGED <<vault, figuresByFile, processedElements, processingLock,
                       pending, nCalls>>

\* processFigureReferences(el, figures) on fragment 1
UnitLink ==
    /\ figuresByFile["A"].present
    /\ \A i \in DOMAIN dom[1].links : dom[1].links[i].handlers < MaxHandlers
    /\ dom' = [dom EXCEPT ![1].links =
                   processFigureReferences(dom[1].links, figuresByFile["A"].v, NoFault)]
    /\ ev' = Event("link", "unit", 1, "A",
                   IF dom'[1].links = dom[1].links THEN "same" ELSE "rewrote")
    /\ UNCHANGED <<vault, figuresByFile, assignedFigures, processedElements,
                   processingLock, pending, labelled, nCalls>>

\* clearCacheForFile(path): the registry reset
UnitClear ==
    /\ figuresByFile["A"].present
    /\ clearCacheForFile("A")
    /\ ev' = Event("clear", "unit", 0, "A", "")
    /\ UNCHANGED <<vault, dom, pending, nCalls>>

UnitNext == UnitScan \/ UnitMatch \/ UnitLink \/ UnitClear

UnitSpec == UnitInit /\ [][UnitNext]_vars

\* the captions of a fragment the matcher takes for unlabeled, in document order
Unlabeled(quotes) ==
    SelectSeq([i \in 1..Len(quotes) |-> i],
              LAMBDA i : quotes[i].hasP /\ ~HasFigureNumber(quotes[i].text))

\* C14: with a fresh assignment set the matcher gives the i-th unlabeled
\* caption of the fragment the label of the i-th record of the table, for every
\* i up to the smaller of the two counts, whatever the ids of the records.
C14_AssignedInTableOrder ==
    [][(ev'.op = "match" /\ assignedFigures["A"].v = {}) =>
        LET figures == figuresByFile["A"].v
            U == Unlabeled(dom[1].quotes)
        IN  \A i \in 1..Len(U) :
                i <= Len(figures) =>
                    /\ dom'[1].quotes[U[i]].text # <<>>
                    /\ dom'[1].quotes[U[i]].text[1] = Tok("gen", figures[i].number)]_vars

\* C15: a matcher pass that follows a matcher pass on the same fragment, with
\* no reset in between, changes neither the captions nor the assignment set;
\* and in any pass a caption that begins with a figure label is left as it is,
\* so that no more ids are consumed than there are unlabeled captions.
C15_MatcherIdempotent ==
    [][/\ (ev.op = "match" /\ ev'.op = "match")
            => (dom' = dom /\ assignedFigures' = assignedFigures)
       /\ (ev'.op = "match") =>
            /\ \A i \in DOMAIN dom[1].quotes :
                  (dom[1].quotes[i].hasP /\ HasFigureNumber(dom[1].quotes[i].text))
                     => dom'[1].quotes[i] = dom[1].quotes[i]
            /\ Cardinality(assignedFigures'["A"].v \ assignedFigures["A"].v)
                  <= Len(Unlabeled(dom[1].quotes))]_vars
C15_Witness ==
    /\ ev.op = "match" /\ ev.res = "same"
    /\ \E i \in Captions(1) : WrittenLabels(1, i) # {}
    /\ assignedFigures["A"].v # {}

\* a pass of process() over fragment e that finds no unassigned record in the
\* table it works with leaves the captions of e and the assignment set alone
C16_UntouchedWhenExhausted ==
    [][\A e \in Els :
        (/\ ev'.op \in {"process", "resume"} /\ ev'.el = e
         /\ getNextAvailableFigure(figuresByFile'[docOf(e)].v,
                                   assignedFigures[docOf(e)].v) = 0)
        => /\ dom'[e].quotes = dom[e].quotes
           /\ assignedFigures'[docOf(e)].v = assignedFigures[docOf(e)].v]_vars

\* C16: with no unassigned record left an unlabeled caption and the assignment
\* set stay as they are, and the captions of a document labelled since its
\* caches were last cleared are never more than the records of its table.
C16_LabelledWithinTable ==
    /\ C16_UntouchedWhenExhausted
    /\ [](\A d \in Docs : labelled[d] <= Len(figuresByFile[d].v))

\* the records of a table whose id is exactly id
RecordsWith(figures, id) == {k \in DOMAIN figures : figures[k].id = id}

\* C17: a linker pass gives every figure link the label of the (first) record
\* of the table whose id is exactly the id of the link's target, and leaves the
\* visible text of a link whose id no record has as it was.
C17_LinkByExactId ==
    [][(ev'.op = "link") =>
        LET figures == figuresByFile["A"].v
        IN  \A i \in DOMAIN dom[1].links :
                LET l == dom[1].links[i]
                    m == RecordsWith(figures, l.id)
                IN  /\ dom'[1].links[i].id = l.id
                    /\ IF m = {} THEN dom'[1].links[i] = l
                       ELSE \E k \in m :
                              /\ \A j \in m : k <= j
                              /\ dom'[1].links[i].text = <<figures[k].number>>]_vars
C17_Witness ==
    /\ ev.op = "link"
    /\ \E i \in DOMAIN dom[1].links : \E k \in DOMAIN figuresByFile["A"].v :
          /\ figuresByFile["A"].v[k].id = dom[1].links[i].id
          /\ dom[1].links[i].text = <<figuresByFile["A"].v[k].number>>
    /\ Len(figuresByFile["A"].v) > 1

\* C18: a linker pass that follows a linker pass which rewrote a link leaves
\* the fragment as it is: targets, visible texts and click listeners.
C18_LinkerIdempotent ==
    [][(ev.op = "link" /\ ev.res = "rewrote" /\ ev'.op = "link") => dom' = dom]_vars

\* C19: a scan that reads the file turns its k-th declaration into the k-th
\* record, labelled "<language label> <prefix>.<k>" with k counted from 1,
\* whatever the ids are: one record per declaration, no two labels equal.
C19_NumberedByPosition ==
    [][(ev'.op = "scan" /\ ev'.res = "stored") =>
        LET content == vault["A"]
            T == figuresByFile'["A"].v
        IN  /\ figuresByFile'["A"].present
            /\ Len(T) = Len(content.ids)
            /\ \A k \in DOMAIN T :
                  /\ T[k].id = content.ids[k]
                  /\ T[k].number = Label(IF content.heb THEN "Iyur" ELSE "Figure",
                                         getFilePrefix(basename("A")), k)
            /\ \A j, k \in DOMAIN T : T[j].number = T[k].number => j = k]_vars
C19_Witness ==
    /\ ev.op = "scan" /\ ev.res = "stored"
    /\ Len(figuresByFile["A"].v) = 2
    /\ figuresByFile["A"].v[1].id = figuresByFile["A"].v[2].id
    /\ figuresByFile["A"].v[2].number.n = 2
    /\ vault["A"].heb

\* C20: when a scan of a document completes, the table stored for the document
\* is exactly the sequence that scan built from the text it read (the empty
\* one when the read failed), whatever table was stored before.
C20_RescanReplacesTable ==
    [][\A d \in Docs :
        (ev'.op \in {"scan", "resume"} /\ ev'.doc = d) =>
            \E t \in BagToSet(pending) :
                /\ t.doc = d /\ t.phase = "read"
                /\ pending' = Remove(t)
                /\ figuresByFile'[d] =
                      SomeTable(IF t.ok THEN ScanContent(d, t.file) ELSE <<>>)]_vars
C20_Witness ==
    /\ ev.op = "scan" /\ ev.res = "stored"
    /\ Len(figuresByFile[ev.doc].v) = 1
    /\ labelled[ev.doc] = 2

\* ------------------------------------------------ the prefix of a file name
\* scanForFigures applied to a file of any short base name: the prefix that
\* getFilePrefix extracts from file.basename is the prefix of the labels.
MaxName == 6         \* characters of a base name

NameChars == {"S", "0", "2", "_"}
Names     == SeqsUpTo(NameChars, MaxName)

\* NumberedFiguresPlugin.getFilePrefix: prefixMatch[1].replace(/^0+/, ''),
\* returned as it is
Plugin_getFilePrefix(fileName) ==
    LET m == FirstMatch(fileName, 1)
    IN  IF m # <<0, 0>>
        THEN LET g == SubSeq(fileName, m[1], m[2])
                 z == RunEnd(g, 1, {"0"})
             IN  SubSeq(g, z, Len(g))
        ELSE <<"1">>

PrefixInit ==
    /\ \E n \in Names :
          vault = [d \in Docs |-> [exists |-> TRUE, heb |-> FALSE, ids |-> <<"x">>,
                                   name |-> n]]
    /\ dom = InitDom
    /\ figuresByFile = [d \in Docs |-> NoTable]
    /\ assignedFigures = [d \in Docs |-> NoSet]
    /\ processedElements = {}
    /\ processingLock = [d \in Docs |-> FALSE]
    /\ pending = EmptyBag
    /\ labelled = [d \in Docs |-> 0]
    /\ ev = Event("init", "", 0, "", "")
    /\ nCalls = 0

\* the table of the file after a scan that labels with the given prefix
PrefixTable(prefix) ==
    [figuresByFile EXCEPT !["A"] =
        SomeTable(ScanLoop(FIGURE_TEXT(isHebrewContent(vault["A"])), prefix,
                           vault["A"].ids, 1, <<>>))]

\* FigureNumberingFeature.scanForFigures(file), file.basename being the name
PrefixScan ==
    /\ figuresByFile' = PrefixTable(getFilePrefix(vault["A"].name))
    /\ ev' = Event("scan", "feature", 0, "A", "stored")
    /\ UNCHANGED <<vault, dom, assignedFigures, processedElements, processingLock,
                   pending, labelled, nCalls>>

\* NumberedFiguresPlugin.scanDocumentForFigures(file); its figureInfoByFile is
\* kept in figuresByFile here
PluginScan ==
    /\ figuresByFile' = PrefixTable(Plugin_getFilePrefix(vault["A"].name))
    /\ ev' = Event("scan", "plugin", 0, "A", "stored")
    /\ UNCHANGED <<vault, dom, assignedFigures, processedElements, processingLock,
                   pending, labelled, nCalls>>

PrefixNext == PrefixScan \/ PluginScan

PrefixSpec == PrefixInit /\ [][PrefixNext]_vars

\* the base name as a whole has the form <letters><digits>_<letters?><digits>:
\* where the last group starts, 0 when the name has another form
WholeMatch(s) ==
    IF MatchAt(s, 1) # <<0, 0>> /\ MatchAt(s, 1)[2] = Len(s)
    THEN MatchAt(s, 1)[1] ELSE 0

\* the letters of the last group followed by its digits without their leading
\* zeros, and "1" when nothing remains
StrippedGroup(g) ==
    LET a == RunEnd(g, 1, Letters)
        z == RunEnd(g, a, {"0"})
        r == SubSeq(g, 1, a - 1) \o SubSeq(g, z, Len(g))
    IN  IF r = <<>> THEN <<"1">> ELSE r

\* the prefix of the labels of the table in place
LabelPrefix == figuresByFile["A"].v[1].number.prefix

\* C21: the labels of a file whose base name has the form
\* <letters><digits>_<letters?><digits> carry the letters of the last group
\* followed by its digits with all leading zeros removed, "1" when nothing
\* remains; the labels of a file whose name holds no such part carry "1".
C21_PrefixStripsZeros ==
    (ev.op = "scan" /\ ev.by = "feature") =>
        LET name == vault["A"].name
        IN  /\ WholeMatch(name) # 0 =>
                LabelPrefix = StrippedGroup(SubSeq(name, WholeMatch(name), Len(name)))
            /\ FirstMatch(name, 1) = <<0, 0>> => LabelPrefix = <<"1">>

\* C22: whatever the base name of the file, the labels of its table have a
\* prefix that is not empty, in either class that scans.
C22_PrefixNotEmpty ==
    (ev.op = "scan") => LabelPrefix # <<>>

\* ------------------------------------------------------ equation references
\* EquationReferencesFeature (src/features/figure-numbering.ts, lines 685-1001).
\* Under EqSpec the variable dom is a record: nodes is the rendered fragment el
\* as the sequence of its elements in document order, attached tells whether
\* el is part of the document, and before holds the elements of the document
\* that precede el.  An element is one of
\*   display  mjx-container.MathJax[display="true"], tags being the equation
\*            numbers of its recognised tag labels
\*   inline   any other mjx-container.MathJax; ref is the equation number its
\*            text refers to ("" when no pattern matches), links the <a>
\*            elements around it from the innermost: "eq" an
\*            a.equation-reference, "a" any other link
\*   marker   a span created by addEquationAnchors
\*   other    any other element
MaxTags == 2         \* tag labels of the first display equation
MaxPasses == 2       \* invocations of EquationReferencesFeature.process

EqTags == {"1", "2"}

\* an element id: none, `eq-${n}`, or one given by something else
NoId     == <<>>
EqId(n)  == <<"eq-", n>>
OtherId  == <<"mjx-eqn">>

EqNode(kind, id, tags, ref, links) ==
    [kind |-> kind, id |-> id, tags |-> tags, ref |-> ref, links |-> links,
     href |-> NoId, redirect |-> NoId, numbers |-> <<>>, handlers |-> 0]

\* the span of lines 832-835
RedirectAnchor(eqNum, first) ==
    [EqNode("marker", EqId(eqNum), <<>>, "", <<>>) EXCEPT !.redirect = EqId(first)]

\* the elements document.getElementById can see
Document(d) == d.before \o (IF d.attached THEN d.nodes ELSE <<>>)

\* document.getElementById(id) over the elements doc: the position of the
\* first element with the id, 0 for null
RECURSIVE ById(_, _, _)
ById(doc, id, i) ==
    IF i > Len(doc) THEN 0
    ELSE IF doc[i].id = id THEN i
    ELSE ById(doc, id, i + 1)

getElementById(doc, id) == IF id = NoId THEN 0 ELSE ById(doc, id, 1)

\* equationNumbers.slice(1).forEach(...) for the equation at position i of
\* d.nodes: one span per alias that no element of the document carries,
\* inserted before the equation; the result is dom and the equation's position
RECURSIVE Redirects(_, _, _, _)
Redirects(d, i, aliases, first) ==
    IF aliases = <<>> THEN [dom |-> d, at |-> i]
    ELSE IF getElementById(Document(d), EqId(Head(aliases))) # 0
         THEN Redirects(d, i, Tail(aliases), first)
    ELSE Redirects([d EXCEPT !.nodes = SubSeq(d.nodes, 1, i - 1)
                                         \o <<RedirectAnchor(Head(aliases), first)>>
                                         \o SubSeq(d.nodes, i, Len(d.nodes))],
                   i + 1, Tail(aliases), first)

SetId_Always(d, i) == [d EXCEPT !.nodes[i].id = EqId(d.nodes[i].tags[1])]

\* lines 818-821
SetId(d, i) ==
    IF d.nodes[i].id = NoId
    THEN [d EXCEPT !.nodes[i].id = EqId(d.nodes[i].tags[1])]
    ELSE d

\* the body of displayEquations.forEach for the equation at position i
OneEquation(d, i) ==
    LET equationNumbers == d.nodes[i].tags
    IN  IF Len(equationNumbers) = 0 THEN [dom |-> d, at |-> i]
        ELSE IF Len(equationNumbers) = 1 THEN [dom |-> SetId(d, i), at |-> i]
        ELSE Redirects([SetId(d, i) EXCEPT !.nodes[i].numbers = equationNumbers],
                       i, Tail(equationNumbers), equationNumbers[1])

\* displayEquations.forEach from position i on, k being the number of display
\* equations met so far; an exception at the failAt-th display equation (0: at
\* none) ends the loop, and what it did before stays
RECURSIVE AnchorsFrom(_, _, _, _)
AnchorsFrom(d, i, k, failAt) ==
    IF i > Len(d.nodes) THEN [dom |-> d, threw |-> FALSE]
    ELSE IF d.nodes[i].kind # "display" THEN AnchorsFrom(d, i + 1, k, failAt)
    ELSE IF k + 1 = failAt THEN [dom |-> d, threw |-> TRUE]
    ELSE LET r == OneEquation(d, i)
         IN  AnchorsFrom(r.dom, r.at + 1, k + 1, failAt)

addEquationAnchors(d, failAt) == AnchorsFrom(d, 1, 0, failAt)

\* container.closest('a.equation-reference')
InEquationLink(node) == \E j \in 1..Len(node.links) : node.links[j] = "eq"

convertToEquationLink_NoGuard(node, equationNumber) ==
    [node EXCEPT !.links = <<"eq">> \o @, !.href = EqId(equationNumber),
                 !.handlers = @ + 1]

\* convertToEquationLink(container, equationNumber, ctx): the new link is the
\* innermost element around the container and has one click listener
convertToEquationLink(node, equationNumber) ==
    IF node.links # <<>> THEN node
    ELSE [node EXCEPT !.links = <<"eq">> \o @, !.href = EqId(equationNumber),
                      !.handlers = 1]

\* the body of mathContainers.forEach for one container; ref stands for the
\* outcome of the four patterns on the container's text
OneContainer(node) ==
    IF InEquationLink(node) \/ node.kind = "display" THEN node
    ELSE IF node.ref = "" THEN node
    ELSE convertToEquationLink(node, node.ref)

IsContainer(node) == node.kind \in {"display", "inline"}

\* mathContainers.forEach from position i on, k being the number of containers
\* met so far; an exception in the failAt-th container (0: in none) is caught
\* in the loop body and the loop goes on
RECURSIVE ContainersFrom(_, _, _, _)
ContainersFrom(nodes, i, k, failAt) ==
    IF i > Len(nodes) THEN nodes
    ELSE IF ~IsContainer(nodes[i]) THEN ContainersFrom(nodes, i + 1, k, failAt)
    ELSE IF k + 1 = failAt THEN ContainersFrom(nodes, i + 1, k + 1, failAt)
    ELSE ContainersFrom([nodes EXCEPT ![i] = OneContainer(nodes[i])],
                        i + 1, k + 1, failAt)

\* what can fail in one pass: nothing, the k-th display equation of
\* addEquationAnchors, the k-th container of the reference loop
NoEqFault == [in |-> "none", k |-> 0]
EqFaults(d) ==
    {NoEqFault}
    \cup {[in |-> "anchors", k |-> k] :
            k \in 1..Cardinality({i \in 1..Len(d.nodes) : d.nodes[i].kind = "display"})}
    \cup {[in |-> "containers", k |-> k] :
            k \in 1..Cardinality({i \in 1..Len(d.nodes) : IsContainer(d.nodes[i])})}

\* processRenderedEquationReferences(el, ctx): the outer catch ends the pass
\* when addEquationAnchors throws
processRenderedEquationReferences(d, fault) ==
    LET r == addEquationAnchors(d, IF fault.in = "anchors" THEN fault.k ELSE 0)
    IN  IF r.threw THEN r.dom
        ELSE [r.dom EXCEPT !.nodes =
                 ContainersFrom(@, 1, 0, IF fault.in = "containers" THEN fault.k ELSE 0)]

scrollToEquation_NoHop(d, equationNumber) ==
    LET first == getElementById(Document(d), EqId(equationNumber))
    IN  [target |-> first, hops |-> 0,
         res |-> IF first # 0 THEN "scroll" ELSE "hash",
         lands |-> first]

\* scrollToEquation(equationNumber): target is the position in the document
\* of the element scrolled to (0: none), hops the number of redirects
\* followed, lands the element the view ends at; with no target the browser
\* navigates to the fragment identifier eq-N, that is to the first element
\* with that id
scrollToEquation(d, equationNumber) ==
    LET doc    == Document(d)
        first  == getElementById(doc, EqId(equationNumber))
        hop    == first # 0 /\ doc[first].redirect # NoId
        target == IF hop THEN getElementById(doc, doc[first].redirect) ELSE first
    IN  [target |-> target, hops |-> IF hop THEN 1 ELSE 0,
         res |-> IF target # 0 THEN "scroll" ELSE "hash",
         lands |-> IF target # 0 THEN target ELSE first]

\* the fragments and documents of EqSpec: two display equations and one inline
\* container in el; before el nothing, an element of another fragment with
\* the id eq-2, or a redirect marker eq-1 of another fragment
EqFragments ==
    {<<EqNode("display", id, tags, "", <<>>), EqNode("display", NoId, tags2, "", <<>>),
       EqNode("inline", NoId, <<>>, ref, links)>> :
        id \in {NoId, OtherId}, tags \in SeqsUpTo(EqTags, MaxTags),
        tags2 \in SeqsUpTo(EqTags, 1), ref \in EqTags \cup {""},
        links \in {<<>>, <<"a">>}}

EqOutside ==
    {<<>>, <<EqNode("other", EqId("2"), <<>>, "", <<>>)>>, <<RedirectAnchor("1", "2")>>}

EqEvent(op, n, fault, out) ==
    [op |-> op, n |-> n, fault |-> fault, target |-> out.target, hops |-> out.hops,
     res |-> out.res, lands |-> out.lands]

NoScroll == [target |-> 0, hops |-> 0, res |-> "", lands |-> 0]

\* the callback of setTimeout(..., 200) at line 703
EqTimer == [kind |-> "setTimeout", ms |-> 200]

EqInit ==
    /\ \E nodes \in EqFragments, before \in EqOutside, attached \in BOOLEAN :
          dom = [nodes |-> nodes, before |-> before, attached |-> attached]
    /\ vault = [d \in Docs |-> [exists |-> TRUE, heb |-> FALSE, ids |-> <<>>]]
    /\ figuresByFile = [d \in Docs |-> NoTable]
    /\ assignedFigures = [d \in Docs |-> NoSet]
    /\ processedElements = {}
    /\ processingLock = [d \in Docs |-> FALSE]
    /\ pending = EmptyBag
    /\ labelled = [d \in Docs |-> 0]
    /\ ev = EqEvent("init", "", NoEqFault, NoScroll)
    /\ nCalls = 0

\* EquationReferencesFeature.process(el, ctx): arms the timer and returns
EqProcess ==
    /\ nCalls < MaxPasses
    /\ nCalls' = nCalls + 1
    /\ pending' = pending (+) SetToBag({EqTimer})
    /\ ev' = EqEvent("process", "", NoEqFault, [NoScroll EXCEPT !.res = "returned"])
    /\ UNCHANGED <<vault, core>>

\* the timer fires: processRenderedEquationReferences(el, ctx)
EqTimerFires ==
    /\ BagIn(EqTimer, pending)
    /\ pending' = pending (-) SetToBag({EqTimer})
    /\ \E fault \in EqFaults(dom) :
          /\ dom' = processRenderedEquationReferences(dom, fault)
          /\ ev' = EqEvent("pass", "", fault, [NoScroll EXCEPT !.res = "returned"])
    /\ UNCHANGED <<vault, figuresByFile, assignedFigures, processedElements,
                   processingLock, labelled, nCalls>>

\* the user activates the a.equation-reference around the i-th element: the
\* listener of line 933 runs scrollToEquation
EqClick ==
    /\ dom.attached
    /\ \E i \in 1..Len(dom.nodes) :
          /\ dom.nodes[i].handlers > 0
          /\ ev' = EqEvent("click", dom.nodes[i].href[2], NoEqFault,
                           scrollToEquation(dom, dom.nodes[i].href[2]))
    /\ UNCHANGED <<vault, core, pending, nCalls>>

\* the host inserts el into the document, or takes it out again
EqAttach ==
    /\ dom' = [dom EXCEPT !.attached = ~@]
    /\ ev' = EqEvent(IF dom.attached THEN "detach" ELSE "attach", "", NoEqFault, NoScroll)
    /\ UNCHANGED <<vault, figuresByFile, assignedFigures, processedElements,
                   processingLock, labelled, pending, nCalls>>

EqNext == EqProcess \/ EqTimerFires \/ EqClick \/ EqAttach

EqSpec == EqInit /\ [][EqNext]_vars

\* the elements of the fragment that the passes did not create, in order
NotMarker(node) == node.kind # "marker"
Originals(nodes) == SelectSeq(nodes, NotMarker)

\* C23: no step changes an identifier that an element of the fragment already
\* has, and the only identifier a step gives to an element without one is
\* "eq-" + first tag, given to a display equation with a recognised tag; so
\* the identifier a display equation has after the first pass stays
C23_IdentifierKept ==
    [][\A i \in 1..Len(Originals(dom.nodes)) :
          LET old == Originals(dom.nodes)[i]
              new == Originals(dom'.nodes)[i]
          IN  /\ old.id # NoId => new.id = old.id
              /\ new.id # old.id =>
                    /\ old.kind = "display" /\ old.tags # <<>>
                    /\ new.id = EqId(old.tags[1])]_vars

\* two passes ran over a fragment with an equation that kept the identifier
\* it came with and an equation that got "eq-" + first tag
C23_Witness ==
    /\ ev.op = "pass" /\ nCalls = MaxPasses /\ pending = EmptyBag
    /\ \E i, j \in 1..Len(dom.nodes) :
          /\ dom.nodes[i].kind = "display" /\ dom.nodes[i].numbers # <<>>
          /\ dom.nodes[i].id = OtherId
          /\ dom.nodes[j].kind = "display" /\ dom.nodes[j].tags # <<>>
          /\ dom.nodes[j].id = EqId(dom.nodes[j].tags[1])

\* the number of redirect markers with the identifier id among the elements
WithId(nodes, id) ==
    Cardinality({i \in 1..Len(nodes) : nodes[i].kind = "marker" /\ nodes[i].id = id})

\* C24: a step creates a redirect marker "eq-" + tag only when no element, of
\* the fragment or of the rest of the document, has that identifier, and then
\* it creates one; so the fragment never holds two markers for one tag
C24_MarkerOnlyIfAbsent ==
    [][\A n \in EqTags :
          WithId(dom'.nodes, EqId(n)) > WithId(dom.nodes, EqId(n)) =>
              /\ ById(dom.before \o dom.nodes, EqId(n), 1) = 0
              /\ WithId(dom'.nodes, EqId(n)) = 1]_vars

\* the equation a redirect marker at position i was created for: the marker
\* was inserted before it, so it is the next element that is not a marker
RECURSIVE OwnerOf(_, _)
OwnerOf(nodes, i) ==
    IF i > Len(nodes) THEN 0
    ELSE IF nodes[i].kind # "marker" THEN i
    ELSE OwnerOf(nodes, i + 1)

\* C25: the back-reference of every redirect marker of the fragment is the
\* identifier of the equation it was created for, whether the pass gave the
\* equation that identifier or the equation came with one
C25_BackReferenceIsAnchor ==
    \A i \in 1..Len(dom.nodes) :
        dom.nodes[i].kind = "marker" =>
            dom.nodes[i].redirect = dom.nodes[OwnerOf(dom.nodes, i)].id

\* the display equations of the fragment that bear the tag n
Bearing(nodes, n) ==
    {i \in 1..Len(nodes) :
        /\ nodes[i].kind = "display"
        /\ \E j \in 1..Len(nodes[i].tags) : nodes[i].tags[j] = n}

\* C26: when exactly one equation of the document bears the tag N, primary or
\* alias, and nothing outside the fragment has an eq- identifier, activating
\* a reference to N ends at that equation
C26_AliasEndsAtEquation ==
    (/\ ev.op = "click"
     /\ dom.before = <<>>
     /\ Cardinality(Bearing(dom.nodes, ev.n)) = 1) =>
        ev.lands \in Bearing(dom.nodes, ev.n)

\* the first element of doc with the identifier id, 0 when there is none
FirstWith(doc, id) ==
    IF \E i \in 1..Len(doc) : doc[i].id = id
    THEN CHOOSE i \in 1..Len(doc) :
            doc[i].id = id /\ \A j \in 1..(i - 1) : doc[j].id # id
    ELSE 0

\* C27: a click on a reference to N resolves the anchor eq-N; when that is a
\* redirect marker the handler follows its back-reference once and takes what
\* it finds, marker or not; it scrolls to the resulting anchor when there is
\* one and otherwise sets the location hash to eq-N
C27_OneRedirectHop ==
    ev.op = "click" =>
        LET doc    == Document(dom)
            anchor == FirstWith(doc, EqId(ev.n))
        IN  IF anchor = 0
            THEN ev.hops = 0 /\ ev.target = 0 /\ ev.res = "hash"
            ELSE IF doc[anchor].redirect = NoId
            THEN ev.hops = 0 /\ ev.target = anchor /\ ev.res = "scroll"
            ELSE /\ ev.hops = 1
                 /\ ev.target = FirstWith(doc, doc[anchor].redirect)
                 /\ ev.res = IF ev.target = 0 THEN "hash" ELSE "scroll"

\* a click went from a redirect marker to an element that is itself a
\* redirect marker, and stayed there
C27_Witness ==
    /\ ev.op = "click" /\ ev.hops = 1 /\ ev.target # 0 /\ ev.res = "scroll"
    /\ Document(dom)[ev.target].redirect # NoId
    /\ Document(dom)[ev.target].id # EqId(ev.n)

\* C28: no element is ever inside more than one link; a display equation is in
\* none; an a.equation-reference is only around an inline container whose text
\* refers to an equation N, it targets #eq-N and has one click listener; and
\* after a pass in which nothing failed every inline container that refers to
\* an equation is inside a link, the one it came in or an a.equation-reference
C28_WrappedOnce ==
    \A i \in 1..Len(dom.nodes) :
        LET node == dom.nodes[i]
        IN  /\ Len(node.links) <= 1
            /\ node.kind = "display" => node.links = <<>>
            /\ InEquationLink(node) =>
                  /\ node.kind = "inline" /\ node.ref # ""
                  /\ node.href = EqId(node.ref) /\ node.handlers = 1
            /\ ~InEquationLink(node) => node.href = NoId /\ node.handlers = 0
            /\ (ev.op = "pass" /\ ev.fault = NoEqFault
                    /\ node.kind = "inline" /\ node.ref # "") =>
                  Len(node.links) = 1

\* the second of two passes ended, and the reference is inside the link the
\* first pass made
C28_Witness ==
    /\ ev.op = "pass" /\ nCalls = MaxPasses /\ pending = EmptyBag
    /\ \E i \in 1..Len(dom.nodes) :
          /\ dom.nodes[i].kind = "inline" /\ dom.nodes[i].links = <<"eq">>
          /\ dom.nodes[i].href = EqId(dom.nodes[i].ref)

\* the position, among the elements the passes did not create, of the element
\* in which the fault of a pass occurred: the k-th display equation for a
\* fault in addEquationAnchors, the k-th container for one in the reference loop
FaultedAt(nodes, fault) ==
    LET Counted(i) == IF fault.in = "anchors" THEN nodes[i].kind = "display"
                      ELSE IsContainer(nodes[i])
    IN  {i \in 1..Len(nodes) :
            /\ Counted(i)
            /\ Cardinality({j \in 1..i : Counted(j)}) = fault.k}

\* C29: after a pass in which the processing of one equation element failed,
\* every other element of the fragment is processed: each other display
\* equation with a recognised tag has an identifier, each other inline
\* container that refers to an equation is inside a link
C29_FailureContained ==
    (ev.op = "pass" /\ ev.fault # NoEqFault) =>
        LET nodes == Originals(dom.nodes)
        IN  \A i \in 1..Len(nodes) :
               i \notin FaultedAt(nodes, ev.fault) =>
                  /\ (nodes[i].kind = "display" /\ nodes[i].tags # <<>>) =>
                        nodes[i].id # NoId
                  /\ (nodes[i].kind = "inline" /\ nodes[i].ref # "") =>
                        Len(nodes[i].links) = 1

\* ------------------------------------------- the earlier FigureNumberingFeature
\* src/unnamed/part_003, lines 19-271: process() is the same text as the later
\* one, with try/finally and no catch; scanForFigures and the two passes have
\* no try/catch at all, so an exception in them leaves process() as a rejected
\* promise, after the finally block

\* blockquotes.forEach of lines 164-202: an exception ends the loop and the
\* pass; what was written before it stays
RECURSIVE Early_EachBlockquote(_, _, _, _, _)
Early_EachBlockquote(quotes, i, figures, assignedSet, fault) ==
    IF i > Len(quotes) THEN [quotes |-> quotes, set |-> assignedSet, threw |-> FALSE]
    ELSE LET q    == quotes[i]
             next == getNextAvailableFigure(figures, assignedSet)
         IN  IF ~q.hasP
             THEN Early_EachBlockquote(quotes, i + 1, figures, assignedSet, fault)
             ELSE IF fault = Fault("read", i)
             THEN [quotes |-> quotes, set |-> assignedSet, threw |-> TRUE]
             ELSE IF HasFigureNumber(q.text) \/ next = 0
             THEN Early_EachBlockquote(quotes, i + 1, figures, assignedSet, fault)
             ELSE IF fault = Fault("write", i)
             THEN [quotes |-> quotes, set |-> assignedSet \cup {figures[next].id},
                   threw |-> TRUE]
             ELSE Early_EachBlockquote(
                      [quotes EXCEPT ![i] = Quote(TRUE, <<Tok("gen", figures[next].number)>>
                                                           \o CleanHTML(q.text))],
                      i + 1, figures, assignedSet \cup {figures[next].id}, fault)

\* processBlockForFigures of lines 147-203
Early_processBlockForFigures(quotes, figures, assigned, fault) ==
    IF fault.kind = "query"
    THEN [quotes |-> quotes, assigned |-> assigned, threw |-> TRUE]
    ELSE IF Len(quotes) = 0
    THEN [quotes |-> quotes, assigned |-> assigned, threw |-> FALSE]
    ELSE LET r == Early_EachBlockquote(quotes, 1, figures, assigned.v, fault)
         IN  [quotes |-> r.quotes, assigned |-> SomeSet(r.set), threw |-> r.threw]

\* links.forEach of lines 219-232: the text is set, no listener is added
RECURSIVE Early_EachLink(_, _, _, _)
Early_EachLink(links, i, figures, fault) ==
    IF i > Len(links) THEN [links |-> links, threw |-> FALSE]
    ELSE IF fault = Fault("link", i) THEN [links |-> links, threw |-> TRUE]
    ELSE LET f == FindFrom(figures, links[i].id, 1)
         IN  Early_EachLink(IF f = 0 THEN links
                            ELSE [links EXCEPT ![i].text = <<figures[f].number>>],
                            i + 1, figures, fault)

\* processFigureReferences of lines 216-233
Early_processFigureReferences(links, figures, fault) ==
    Early_EachLink(links, 1, figures, fault)

\* lines 72-82 of process(): the two passes and the marker; an exception in a
\* pass skips what follows.  res is how the invocation ends
Early_Annotate(e, figures, fault, op) ==
    LET d == docOf(e)
        b == Early_processBlockForFigures(dom[e].quotes, figures, assignedFigures[d], fault)
        l == IF b.threw THEN [links |-> dom[e].links, threw |-> TRUE]
             ELSE Early_processFigureReferences(dom[e].links, figures, fault)
    IN  /\ dom' = [dom EXCEPT ![e] = [quotes |-> b.quotes, links |-> l.links]]
        /\ assignedFigures' = [assignedFigures EXCEPT ![d] = b.assigned]
        /\ processedElements' = IF l.threw THEN processedElements
                                ELSE processedElements \cup {e}
        /\ labelled' = [labelled EXCEPT ![d] = @ + NewlyLabelled(dom[e].quotes, b.quotes)]
        /\ ev' = Event(op, "process", e, d, IF l.threw THEN "threw" ELSE "annotated")

\* the table is cached: the whole call runs without suspending
Early_ProcessCached(e) ==
    /\ Called
    /\ \E fault \in Faults :
          Early_Annotate(e, figuresByFile[docOf(e)].v, fault, "process")
    /\ ReleaseLock(docOf(e))
    /\ UNCHANGED <<vault, figuresByFile, pending>>

\* process(el, ctx) of lines 43-87
Early_process(e) ==
    LET d == docOf(e)
    IN  IF e \in processedElements THEN ProcessMarked(e)
        ELSE IF processingLock[d] THEN ProcessLocked(e)
        ELSE IF figuresByFile[d].present /\ Len(figuresByFile[d].v) # 0
             THEN Early_ProcessCached(e)
        ELSE IF vault[d].exists THEN ProcessScan(e)
        ELSE ProcessNoFile(e)

\* scanForFigures of lines 115-145 once its read has settled: a failed read
\* stores nothing and rejects
Early_scanForFigures(t) ==
    IF t.ok
    THEN [set |-> TRUE, figures |-> ScanContent(t.doc, t.file), threw |-> FALSE]
    ELSE [set |-> FALSE, figures |-> <<>>, threw |-> TRUE]

\* the read of the lazy scan settles and process() resumes
Early_ProcessResumes(t) ==
    /\ BagIn(t, pending)
    /\ t.phase = "read"
    /\ t.kind = "process"
    /\ LET r == Early_scanForFigures(t)
       IN  /\ figuresByFile' = IF r.set
                               THEN [figuresByFile EXCEPT ![t.doc] = SomeTable(r.figures)]
                               ELSE figuresByFile
           /\ IF r.threw
              THEN /\ UNCHANGED <<dom, assignedFigures, processedElements, labelled>>
                   /\ ev' = Event("resume", "process", t.el, t.doc, "threw")
              ELSE IF Len(r.figures) # 0
              THEN \E fault \in Faults : Early_Annotate(t.el, r.figures, fault, "resume")
              ELSE /\ UNCHANGED <<dom, assignedFigures, processedElements, labelled>>
                   /\ ev' = Event("resume", "process", t.el, t.doc, "empty")
    /\ ReleaseLock(t.doc)
    /\ pending' = Remove(t)
    /\ UNCHANGED <<vault, nCalls>>

EarlyNext ==
    \/ \E e \in Els : Early_process(e)
    \/ \E t \in BagToSet(pending) : HostReads(t)
    \/ \E t \in BagToSet(pending) : Early_ProcessResumes(t)
    \/ \E d \in Docs, f \in FileContents : FileChanges(d, f)

EarlySpec == Init /\ [][EarlyNext]_vars

\* C30: no invocation of the core on a rendered fragment ends with an
\* exception reaching its caller: process() never rejects, whether it ends in
\* its first turn or after its lazy scan
C30_NeverPropagates ==
    ev.op \in {"process", "resume"} => ev.res # "threw"

\* C31: a deferred pass that fires while its fragment is outside the document
\* changes nothing in the fragment: no identifier is assigned, no redirect
\* marker is created, no container is wrapped in a link
C31_DetachedPassIsNoOp ==
    [][(ev'.op = "pass" /\ ~dom.attached) => dom'.nodes = dom.nodes]_vars

\* C32: the lock of a document stays in place while a process() invocation of
\* that document is suspended inside its scan-and-match cycle: nothing but the
\* finally block of that invocation removes it
C32_LockRemovedByHolder ==
    \A d \in Docs : InCycle(d) # {} => processingLock[d]

\* --------------------------------------------------------- overlapping scans
\* RaceSpec is Spec with a record of the scans: a suspended invocation carries
\* in `at` the position of its scanForFigures call among all such calls (0
\* while it waits for its timer), and stays in pending, in phase "done", after
\* it has completed.  The code reads neither.
RaceTask(kind, e, d, phase, at) ==
    [kind |-> kind, el |-> e, doc |-> d, phase |-> phase, ok |-> TRUE, file |-> NoFile,
     at |-> at]

\* the position the next scanForFigures call gets
RaceStamp == 1 + Cardinality({t \in BagToSet(pending) : t.at # 0})

\* process(): no table, or an empty one: the lock is taken, the lazy scan starts
Race_ProcessScan(e) ==
    /\ Called
    /\ BagCardinality(pending) < MaxPending
    /\ processingLock' = [processingLock EXCEPT ![docOf(e)] = TRUE]
    /\ pending' = Suspend(RaceTask("process", e, docOf(e), "reading", RaceStamp))
    /\ ev' = Event("process", "process", e, docOf(e), "suspended")
    /\ UNCHANGED <<vault, dom, figuresByFile, assignedFigures, processedElements,
                   labelled>>

Race_process(e) ==
    LET d == docOf(e)
    IN  IF e \in processedElements THEN ProcessMarked(e)
        ELSE IF processingLock[d] THEN ProcessLocked(e)
        ELSE IF figuresByFile[d].present /\ Len(figuresByFile[d].v) # 0
             THEN ProcessCached(e)
        ELSE IF vault[d].exists THEN Race_ProcessScan(e)
        ELSE ProcessNoFile(e)

Race_onFileOpen(filePath) ==
    /\ Called
    /\ clearCacheForFile(filePath)
    /\ IF vault[filePath].exists
       THEN /\ BagCardinality(pending) < MaxPending
            /\ pending' = Suspend(RaceTask("open", 0, filePath, "reading", RaceStamp))
            /\ ev' = Event("open", "open", 0, filePath, "scanning")
       ELSE /\ UNCHANGED pending
            /\ ev' = Event("open", "open", 0, filePath, "nofile")
    /\ UNCHANGED <<vault, dom>>

Race_onLayoutChange(activeFile) ==
    /\ Called
    /\ vault[activeFile].exists
    /\ IF ~figuresByFile[activeFile].present
       THEN /\ BagCardinality(pending) < MaxPending
            /\ pending' = Suspend(RaceTask("layout", 0, activeFile, "timer", 0))
            /\ ev' = Event("layout", "layout", 0, activeFile, "timer")
       ELSE /\ UNCHANGED pending
            /\ ev' = Event("layout", "layout", 0, activeFile, "cached")
    /\ UNCHANGED <<vault, core>>

\* the timer fires: this is where the scan of onLayoutChange starts
Race_TimerFires(t) ==
    /\ BagIn(t, pending)
    /\ t.phase = "timer"
    /\ pending' = Replace(t, [t EXCEPT !.phase = "reading", !.at = RaceStamp])
    /\ ev' = Event("timer", "layout", 0, t.doc, "reading")
    /\ UNCHANGED <<vault, core, nCalls>>

Race_ScanSettles(t) ==
    /\ BagIn(t, pending)
    /\ t.phase = "read"
    /\ t.kind # "process"
    /\ figuresByFile' = AfterScan(t)
    /\ pending' = Replace(t, [t EXCEPT !.phase = "done"])
    /\ ev' = Event("scan", t.kind, 0, t.doc,
                   IF scanForFigures(t).threw THEN "threw"
                   ELSE IF t.ok THEN "stored" ELSE "recovered")
    /\ UNCHANGED <<vault, dom, assignedFigures, processedElements, processingLock,
                   labelled, nCalls>>

Race_ProcessResumes(t) ==
    /\ BagIn(t, pending)
    /\ t.phase = "read"
    /\ t.kind = "process"
    /\ figuresByFile' = AfterScan(t)
    /\ ProcessRest(t, figuresByFile'[t.doc])
    /\ ReleaseLock(t.doc)
    /\ pending' = Replace(t, [t EXCEPT !.phase = "done"])
    /\ UNCHANGED <<vault, nCalls>>

RaceNext ==
    \/ \E e \in Els : Race_process(e)
    \/ \E t \in BagToSet(pending) : HostReads(t)
    \/ \E t \in BagToSet(pending) : Race_ScanSettles(t)
    \/ \E t \in BagToSet(pending) : Race_ProcessResumes(t)
    \/ \E t \in BagToSet(pending) : Race_TimerFires(t)
    \/ \E d \in Docs : Race_onFileOpen(d)
    \/ \E d \in Docs : Race_onLayoutChange(d)
    \/ \E d \in Docs, f \in FileContents : FileChanges(d, f)

RaceSpec == Init /\ [][RaceNext]_vars

\* the scans of document d that have been started
ScansOf(d) == {t \in BagToSet(pending) : t.doc = d /\ t.at # 0}
LastStarted(d) == CHOOSE t \in ScansOf(d) : \A u \in ScansOf(d) : u.at <= t.at

\* C33: once every scan started for a document has completed, the table the
\* document has is the one made by the scan that was started last
C33_LastStartedWins ==
    \A d \in Docs :
        (/\ ScansOf(d) # {}
         /\ \A t \in ScansOf(d) : t.phase = "done"
         /\ figuresByFile[d].present) =>
            figuresByFile[d] = SomeTable(scanForFigures(LastStarted(d)).figures)

C35_ConsumedOnlyWhenLabelled ==
    \A d \in Docs : Cardinality(assignedFigures[d].v) <= labelled[d]

\* C36: for every tag T at most one element, equation or redirect marker, of
\* the fragment and the rest of the document has the identifier eq-T
C36_AnchorsUnique ==
    \A n \in EqTags :
        LET all == dom.before \o dom.nodes
        IN  Cardinality({i \in 1..Len(all) : all[i].id = EqId(n)}) <= 1

\* C37: the element found under the back-reference of a redirect marker of the
\* fragment is never a redirect marker itself
C37_NoRedirectChain ==
    \A i \in 1..Len(dom.nodes) :
        dom.nodes[i].kind = "marker" =>
            LET all   == dom.before \o dom.nodes
                found == FirstWith(all, dom.nodes[i].redirect)
            IN  found # 0 => all[found].kind # "marker"

====
